---- MODULE Spec2Model ----
(***************************************************************************)
(* Singleton examples of design-patterns-python.                           *)
(*                                                                         *)
(*   Structural/thread_safe/main.py   Singleton.get_instance, double       *)
(*                                    checked locking on Singleton._lock   *)
(*   Conceptual/ThreadSafe/main.py    SingletonMeta.__call__, lock always  *)
(*                                    taken, one check inside              *)
(*   Conceptual/NonThreadSafe/main.py Singleton.get_instance without lock, *)
(*                                    __init__ raises ReferenceError       *)
(*                                                                         *)
(* Threads run the statements of these functions one at a time; a thread   *)
(* switch may happen between any two of them.                              *)
(***************************************************************************)
EXTENDS Integers, Sequences, FiniteSets

\* ---------------------------------------------------------------- bounds
NThreads == 2
MaxCalls == 4
\* Longest list of subscribers the Observer model lets attach() build.
MaxObservers == 3
\* Longest WordsCollection the Iterator model lets add_item() build, and
\* the number of iterators it lets a client ask for.
MaxItems == 3
MaxIterators == 2
\* The Flyweight model stops creating Flyweight objects and factories at
\* these counts, and passes a factory at most MaxInitial initial states.
MaxFlyweights == 3
MaxFactories == 2
MaxInitial == 2
\* The Builder model stops creating Product1 objects at MaxProducts and
\* adding parts, to all products together, at MaxParts.
MaxProducts == 3
MaxParts == 4

Threads == 1..NThreads

\* ---------------------------------------------------------------- values
\* Python's None for a reference; objects are the indices of the heap.
None == 0
\* An attribute that no assignment has set yet.
NoValue == "unset"
\* The arguments the client code passes to the accessors.
Values == {"FOO", "BAR"}
\* The classes created with metaclass=SingletonMeta.
MetaClasses == {"Singleton"}
\* The same with a subclass of Singleton, `class SubSingleton(Singleton)`.
MetaFamily == MetaClasses \cup {"SubSingleton"}
\* The example scripts; each runs in a process of its own.
TSProgram == "Structural/thread_safe"
MetaProgram == "Conceptual/ThreadSafe"
\* Conceptual/ThreadSafe with a client that also defines the subclass.
MetaSubProgram == "Conceptual/ThreadSafe, with a subclass"
NTSProgram == "Conceptual/NonThreadSafe"
\* Conceptual/NonThreadSafe as its own client code uses it: one call at a
\* time, through get_instance.
NTSSequential == "Conceptual/NonThreadSafe, one call at a time"
\* Conceptual/NonThreadSafe with threads that all go through get_instance.
NTSAccessorOnly == "Conceptual/NonThreadSafe, threads calling get_instance"
\* The Singleton classes of the two scripts without a metaclass.
TSClass == "thread_safe.Singleton"
NTSClass == "NonThreadSafe.Singleton"
\* A client's subclass of each, `class SubSingleton(Singleton): pass`.
TSSubClass == "thread_safe.SubSingleton"
NTSSubClass == "NonThreadSafe.SubSingleton"

VARIABLES
    program,                 \* which example script this process runs
    heap,                    \* every object ever allocated: [cls, args, value]
    Singleton_instance,      \* Structural/thread_safe Singleton._instance
    Singleton_lock,          \* Structural/thread_safe Singleton._lock: holder or None
    SingletonMeta_instances, \* Conceptual/ThreadSafe SingletonMeta._instances (dict)
    SingletonMeta_lock,      \* Conceptual/ThreadSafe SingletonMeta._lock: holder or None
    NTS_instance,            \* Conceptual/NonThreadSafe Singleton._instance
    ncalls,                  \* calls started so far, by all threads
    pc,                      \* statement each thread is about to run
    cls,                     \* class the thread's current/last call is made on
    arg,                     \* `value` argument of that call
    self,                    \* object the thread's current call is constructing
    direct,                  \* that call is a direct constructor call
    startPop,                \* the slot was populated when that call began
    ret,                     \* reference the thread's last call returned
    seen,                    \* singleton.value as last read by test_singleton
    err,                     \* exception the thread's last call ended with
    obs,                     \* Observer/Conceptual: subjects and observers
    iter,                    \* Iterator/Conceptual: collection and iterators
    fly,                     \* Flyweight/Conceptual: factory and flyweights
    bld                      \* Builder/Conceptual: builder and products

vars == <<program, heap, Singleton_instance, Singleton_lock,
          SingletonMeta_instances, SingletonMeta_lock, NTS_instance, ncalls,
          pc, cls, arg, self, direct, startPop, ret, seen, err,
          obs, iter, fly, bld>>

\* Everything but pc, grouped for the UNCHANGED clauses.
tsShared == <<Singleton_instance, Singleton_lock>>
metaShared == <<SingletonMeta_instances, SingletonMeta_lock>>
\* The state of the examples that are not Singleton examples.
patterns == <<obs, iter, fly, bld>>
shared == <<patterns, program, heap, tsShared, metaShared, NTS_instance, ncalls>>
frame == <<cls, arg, self, direct, startPop>>
results == <<ret, seen, err>>
\* The state of the Singleton examples.
singletons == <<heap, tsShared, metaShared, NTS_instance, ncalls, pc, frame,
                results>>

\* ------------------------------------------------------------- the heap
Objects == 1..Len(heap)
InstancesOf(c) == {o \in Objects : heap[o].cls = c}

\* type.__call__, first half: object.__new__(cls) gives a fresh object with
\* no instance attribute set; `v` is the argument __init__ will be given.
New(c, v) == Append(heap, [cls |-> c, args |-> v, value |-> NoValue])

\* `self.value = value`
SetValue(o, v) == [heap EXCEPT ![o].value = v]

\* ------------------------------------------------------------------------
\* Observer/Conceptual/main.py: the state
\* ------------------------------------------------------------------------
\* Two ConcreteSubject() instances (line 184 creates one) and the two
\* observers of lines 186-189: "a" is a ConcreteObserverA, "b" a
\* ConcreteObserverB.
Subjects == {"S1", "S2"}
Observers == {"a", "b"}
\* `_state: int = None` (line 76), before some_business_logic assigns it
NoState == -1
\* line 133, `randrange(0, 10)`: one sample for each way the two update
\* methods can react (both, A only, both, B only)
StateSamples == {0, 1, 2, 3}

\* The class body of ConcreteSubject has run and the subjects exist.
\* `_observers` is the one list object made at line 85; `log` records the
\* last method call: who made it, which observers update() was called on,
\* which of them printed a reaction, and the exception it ended with.
\* `attachedTo` remembers every (subject, observer) attach() was called for.
ObserverStart ==
    [_observers |-> <<>>,
     _state |-> [s \in Subjects |-> NoState],
     attachedTo |-> {},
     log |-> [op |-> "-", subject |-> "-", passed |-> <<>>,
              reacted |-> {}, err |-> "-"]]

\* ------------------------------------------------------------------------
\* Iterator/Conceptual/main.py: the state
\* ------------------------------------------------------------------------
\* lines 119-121: the items a client adds
Words == {"First", "Second"}
\* what a __next__ call ended with when it returned no item
StopIteration == "StopIteration"
NotCalled == "-"

\* line 118, `collection = WordsCollection()`: an empty list and no
\* iterator yet. Every iterator made later holds that same list object
\* (lines 101 and 104 pass self._collection).
IteratorStart == [_collection |-> <<>>, iterators |-> <<>>]

\* ------------------------------------------------------------------------
\* Flyweight/Conceptual/main.py: the state
\* ------------------------------------------------------------------------
\* Strings of the Flyweight example are sequences of code points, so that
\* sorted() and "_".join() of get_key are computed, not assumed.
\* "_" of line 68
Underscore == 95
\* the strings "a", "b" and "a_b" as elements of a shared state
Word_a == <<97>>
Word_b == <<98>>
Word_a_b == <<97, Underscore, 98>>
\* the shared states a client passes (lines 100, 118-124): two orders of
\* the same elements, one state whose only element spells their key, and
\* an unrelated one
SharedStates ==
    {<<Word_a, Word_b>>, <<Word_b, Word_a>>, <<Word_a_b>>, <<Word_b>>}

\* The class body of FlyweightFactory has run: `_flyweights` is the one
\* dict made at line 55. `objects` are the Flyweight objects constructed
\* so far (an object is its index, the element its _shared_state),
\* `factories` counts the FlyweightFactory instances, `given` maps a key to
\* the object the last get_flyweight for that key returned, and `log`
\* records the last call.
FlyweightStart ==
    [_flyweights |-> <<>>,
     objects |-> <<>>,
     factories |-> 0,
     given |-> <<>>,
     log |-> [op |-> "-", key |-> <<>>, returned |-> None]]

\* ------------------------------------------------------------ the state
\* A fresh interpreter that has imported the module `p`: class attributes
\* hold their class-body values, no thread has started.
\* line 204, `builder = ConcreteBuilder1()`: __init__ calls reset(), which
\* makes the first Product1. `objects` are the Product1 objects made so
\* far (an object is its index, the element its `parts` list), `_product`
\* is the builder's attribute. `sinceReset` lists the parts the
\* produce_part_* calls asked for since the last reset, and `handed` the
\* products the `product` property returned, each with the parts it held
\* when it was returned.
BuilderStart ==
    [objects |-> << <<>> >>,
     _product |-> 1,
     sinceReset |-> <<>>,
     handed |-> <<>>]

Start(p) ==
    /\ program = p
    /\ heap = <<>>
    /\ Singleton_instance = None
    /\ Singleton_lock = None
    /\ SingletonMeta_instances = <<>>
    /\ SingletonMeta_lock = None
    /\ NTS_instance = None
    /\ ncalls = 0
    /\ pc = [t \in Threads |-> "idle"]
    /\ cls = [t \in Threads |-> "-"]
    /\ arg = [t \in Threads |-> NoValue]
    /\ self = [t \in Threads |-> None]
    /\ direct = [t \in Threads |-> FALSE]
    /\ startPop = [t \in Threads |-> FALSE]
    /\ ret = [t \in Threads |-> None]
    /\ seen = [t \in Threads |-> NoValue]
    /\ err = [t \in Threads |-> "-"]
    /\ obs = ObserverStart
    /\ iter = IteratorStart
    /\ fly = FlyweightStart
    /\ bld = BuilderStart

Init == \E p \in {TSProgram, MetaProgram} : Start(p)

Goto(t, at) == pc' = [pc EXCEPT ![t] = at]

\* A thread begins a call: a new frame, the last call's results dropped.
Begin(t, p, c, v, at, populated, isDirect) ==
    /\ program = p
    /\ pc[t] = "idle"
    /\ ncalls < MaxCalls
    /\ ncalls' = ncalls + 1
    /\ Goto(t, at)
    /\ cls' = [cls EXCEPT ![t] = c]
    /\ arg' = [arg EXCEPT ![t] = v]
    /\ self' = [self EXCEPT ![t] = None]
    /\ direct' = [direct EXCEPT ![t] = isDirect]
    /\ startPop' = [startPop EXCEPT ![t] = populated]
    /\ ret' = [ret EXCEPT ![t] = None]
    /\ seen' = [seen EXCEPT ![t] = NoValue]
    /\ err' = [err EXCEPT ![t] = "-"]
    /\ UNCHANGED <<patterns, program, heap, tsShared, metaShared, NTS_instance>>

\* The call is over: the thread keeps what it called and what came back
\* until it begins its next call.
End(t) ==
    /\ Goto(t, "idle")
    /\ self' = [self EXCEPT ![t] = None]
    /\ UNCHANGED <<cls, arg, direct, startPop>>

\* The call ends with exception `e` propagating to the caller.
Raise(t, e) ==
    /\ End(t)
    /\ err' = [err EXCEPT ![t] = e]
    /\ UNCHANGED <<ret, seen>>

\* ------------------------------------------------------------------------
\* Structural/thread_safe/main.py
\* ------------------------------------------------------------------------

\* test_singleton(value): `singleton = Singleton.get_instance(value)`
TS_test_singleton(t) ==
    \E v \in Values :
        Begin(t, TSProgram, TSClass, v, "ts_check1",
              Singleton_instance # None, FALSE)

\* Mutation of TS_FirstCheck: no fast path, every call goes to the lock.
TS_FirstCheckAlwaysLock(t) ==
    /\ pc[t] = "ts_check1"
    /\ Goto(t, "ts_acquire")
    /\ UNCHANGED <<shared, frame, results>>

\* line 52, `if not Singleton._instance:` (unguarded read)
TS_FirstCheck(t) ==
    /\ pc[t] = "ts_check1"
    /\ IF Singleton_instance = None
         THEN Goto(t, "ts_acquire")
         ELSE Goto(t, "ts_return")
    /\ UNCHANGED <<shared, frame, results>>

\* Mutation of TS_Acquire: the lock excludes nobody (as with a Lock() made
\* per call instead of the one class attribute).
TS_AcquireNoWait(t) ==
    /\ pc[t] = "ts_acquire"
    /\ Singleton_lock' = t
    /\ Goto(t, "ts_check2")
    /\ UNCHANGED <<patterns, program, heap, Singleton_instance, metaShared,
                   NTS_instance, ncalls, frame, results>>

\* Mutation of TS_Acquire: the `with` statement is left out, the body runs
\* without the lock.
TS_AcquireSkipped(t) ==
    /\ pc[t] = "ts_acquire"
    /\ Goto(t, "ts_check2")
    /\ UNCHANGED <<shared, frame, results>>

\* line 53, `with Singleton._lock:` entry; blocks while the lock is held
TS_Acquire(t) ==
    /\ pc[t] = "ts_acquire"
    /\ Singleton_lock = None
    /\ Singleton_lock' = t
    /\ Goto(t, "ts_check2")
    /\ UNCHANGED <<patterns, program, heap, Singleton_instance, metaShared,
                   NTS_instance, ncalls, frame, results>>

\* Mutation of TS_SecondCheck: the slot is not read again under the lock.
TS_SecondCheckDropped(t) ==
    /\ pc[t] = "ts_check2"
    /\ Goto(t, "ts_new")
    /\ UNCHANGED <<shared, frame, results>>

\* Mutation of TS_SecondCheck: finding the slot populated, the thread
\* leaves the block without releasing the lock.
TS_SecondCheckKeepsLock(t) ==
    /\ pc[t] = "ts_check2"
    /\ IF Singleton_instance = None
         THEN Goto(t, "ts_new")
         ELSE Goto(t, "ts_return")
    /\ UNCHANGED <<shared, frame, results>>

\* line 54, `if not Singleton._instance:` (under the lock)
TS_SecondCheck(t) ==
    /\ pc[t] = "ts_check2"
    /\ IF Singleton_instance = None
         THEN Goto(t, "ts_new")
         ELSE Goto(t, "ts_release")
    /\ UNCHANGED <<shared, frame, results>>

\* Mutation of TS_New: the slot is assigned the object before __init__ ran.
TS_NewPublished(t) ==
    /\ pc[t] = "ts_new"
    /\ heap' = New(TSClass, arg[t])
    /\ self' = [self EXCEPT ![t] = Len(heap) + 1]
    /\ Singleton_instance' = Len(heap) + 1
    /\ Goto(t, "ts_init")
    /\ UNCHANGED <<patterns, program, Singleton_lock, metaShared, NTS_instance, ncalls,
                   cls, arg, direct, startPop, results>>

\* line 55, right-hand side `Singleton(value)`: an object of the class
\* named there is allocated
TS_New(t) ==
    /\ pc[t] = "ts_new"
    /\ heap' = New(TSClass, arg[t])
    /\ self' = [self EXCEPT ![t] = Len(heap) + 1]
    /\ Goto(t, "ts_init")
    /\ UNCHANGED <<patterns, program, tsShared, metaShared, NTS_instance, ncalls,
                   cls, arg, direct, startPop, results>>

\* lines 34-35, `__init__`: `self.value = value`
TS_Init(t) ==
    /\ pc[t] = "ts_init"
    /\ heap' = SetValue(self[t], arg[t])
    /\ Goto(t, "ts_store")
    /\ UNCHANGED <<patterns, program, tsShared, metaShared, NTS_instance, ncalls,
                   frame, results>>

\* line 55, the assignment `Singleton._instance = ...`
TS_Store(t) ==
    /\ pc[t] = "ts_store"
    /\ Singleton_instance' = self[t]
    /\ Goto(t, "ts_release")
    /\ UNCHANGED <<patterns, program, heap, Singleton_lock, metaShared, NTS_instance,
                   ncalls, frame, results>>

\* line 53, `with` exit: the lock is released
TS_Release(t) ==
    /\ pc[t] = "ts_release"
    /\ Singleton_lock' = None
    /\ Goto(t, "ts_return")
    /\ UNCHANGED <<patterns, program, heap, Singleton_instance, metaShared,
                   NTS_instance, ncalls, frame, results>>

\* Mutation of TS_Return: __init__ runs again on the instance returned.
TS_ReturnReinit(t) ==
    /\ pc[t] = "ts_return"
    /\ ret' = [ret EXCEPT ![t] = Singleton_instance]
    /\ heap' = IF Singleton_instance = None THEN heap
                ELSE SetValue(Singleton_instance, arg[t])
    /\ Goto(t, "read_value")
    /\ UNCHANGED <<patterns, program, tsShared, metaShared, NTS_instance, ncalls,
                   frame, seen, err>>

\* line 56, `return Singleton._instance`
TS_Return(t) ==
    /\ pc[t] = "ts_return"
    /\ ret' = [ret EXCEPT ![t] = Singleton_instance]
    /\ Goto(t, "read_value")
    /\ UNCHANGED <<shared, frame, seen, err>>

\* ------------------------------------------------------------------------
\* Conceptual/ThreadSafe/main.py
\* ------------------------------------------------------------------------

\* test_singleton(value): `singleton = Singleton(value)`
Meta_test_singleton(t) ==
    \E c \in MetaClasses, v \in Values :
        Begin(t, MetaProgram, c, v, "m_acquire",
              c \in DOMAIN SingletonMeta_instances, FALSE)

\* Mutation of Meta_Acquire: the lock excludes nobody.
Meta_AcquireNoWait(t) ==
    /\ pc[t] = "m_acquire"
    /\ SingletonMeta_lock' = t
    /\ Goto(t, "m_check")
    /\ UNCHANGED <<patterns, program, heap, tsShared, SingletonMeta_instances,
                   NTS_instance, ncalls, frame, results>>

\* line 55, `with cls._lock:` entry; blocks while the lock is held
Meta_Acquire(t) ==
    /\ pc[t] = "m_acquire"
    /\ SingletonMeta_lock = None
    /\ SingletonMeta_lock' = t
    /\ Goto(t, "m_check")
    /\ UNCHANGED <<patterns, program, heap, tsShared, SingletonMeta_instances,
                   NTS_instance, ncalls, frame, results>>

\* Mutation of Meta_Check: the registry is not consulted.
Meta_CheckDropped(t) ==
    /\ pc[t] = "m_check"
    /\ Goto(t, "m_new")
    /\ UNCHANGED <<shared, frame, results>>

\* Mutation of Meta_Check: the registry is tested for being empty, not for
\* holding the class.
Meta_CheckAnyInstance(t) ==
    /\ pc[t] = "m_check"
    /\ IF DOMAIN SingletonMeta_instances = {}
         THEN Goto(t, "m_new")
         ELSE Goto(t, "m_release")
    /\ UNCHANGED <<shared, frame, results>>

\* line 71, `if cls not in cls._instances:`
Meta_Check(t) ==
    /\ pc[t] = "m_check"
    /\ IF cls[t] \notin DOMAIN SingletonMeta_instances
         THEN Goto(t, "m_new")
         ELSE Goto(t, "m_release")
    /\ UNCHANGED <<shared, frame, results>>

\* line 72, `super().__call__(*args, **kwargs)`: type.__call__ allocates
Meta_New(t) ==
    /\ pc[t] = "m_new"
    /\ heap' = New(cls[t], arg[t])
    /\ self' = [self EXCEPT ![t] = Len(heap) + 1]
    /\ Goto(t, "m_init")
    /\ UNCHANGED <<patterns, program, tsShared, metaShared, NTS_instance, ncalls,
                   cls, arg, direct, startPop, results>>

\* lines 86-87, `__init__`: `self.value = value`, called with the one
\* argument it requires
Meta_Init(t) ==
    /\ pc[t] = "m_init"
    /\ arg[t] # NoValue
    /\ heap' = SetValue(self[t], arg[t])
    /\ Goto(t, "m_store")
    /\ UNCHANGED <<patterns, program, tsShared, metaShared, NTS_instance, ncalls,
                   frame, results>>

\* Mutation of Meta_Store: the new instance is not put in the registry.
Meta_StoreDropped(t) ==
    /\ pc[t] = "m_store"
    /\ Goto(t, "m_release")
    /\ UNCHANGED <<shared, frame, results>>

\* line 73, `cls._instances[cls] = instance`
Meta_Store(t) ==
    /\ pc[t] = "m_store"
    /\ SingletonMeta_instances' =
           [c \in DOMAIN SingletonMeta_instances \cup {cls[t]} |->
               IF c = cls[t] THEN self[t] ELSE SingletonMeta_instances[c]]
    /\ Goto(t, "m_release")
    /\ UNCHANGED <<patterns, program, heap, tsShared, SingletonMeta_lock, NTS_instance,
                   ncalls, frame, results>>

\* line 55, `with` exit: the lock is released
Meta_Release(t) ==
    /\ pc[t] = "m_release"
    /\ SingletonMeta_lock' = None
    /\ Goto(t, "m_return")
    /\ UNCHANGED <<patterns, program, heap, tsShared, SingletonMeta_instances,
                   NTS_instance, ncalls, frame, results>>

\* Mutation of Meta_Return: __init__ runs again on the instance returned.
Meta_ReturnReinit(t) ==
    /\ pc[t] = "m_return"
    /\ cls[t] \in DOMAIN SingletonMeta_instances
    /\ ret' = [ret EXCEPT ![t] = SingletonMeta_instances[cls[t]]]
    /\ heap' = SetValue(SingletonMeta_instances[cls[t]], arg[t])
    /\ Goto(t, "read_value")
    /\ UNCHANGED <<patterns, program, tsShared, metaShared, NTS_instance, ncalls,
                   frame, seen, err>>

\* line 74, `return cls._instances[cls]`
Meta_Return(t) ==
    /\ pc[t] = "m_return"
    /\ IF cls[t] \in DOMAIN SingletonMeta_instances
         THEN /\ ret' = [ret EXCEPT ![t] = SingletonMeta_instances[cls[t]]]
              /\ Goto(t, "read_value")
              /\ UNCHANGED <<frame, seen, err>>
         ELSE Raise(t, "KeyError")
    /\ UNCHANGED shared

\* ------------------------------------------------------------------------
\* test_singleton, second statement (both thread-safe examples)
\* ------------------------------------------------------------------------

\* `print(singleton.value)`. AttributeError on None, and on an object of
\* thread_safe.Singleton whose __init__ has not run: `value: str` is only
\* an annotation there, while the Conceptual class has `value: str = None`.
ReadValue(t) ==
    /\ pc[t] = "read_value"
    /\ IF \/ ret[t] = None
          \/ heap[ret[t]].cls = TSClass /\ heap[ret[t]].value = NoValue
         THEN Raise(t, "AttributeError")
         ELSE /\ seen' = [seen EXCEPT ![t] = heap[ret[t]].value]
              /\ End(t)
              /\ UNCHANGED <<ret, err>>
    /\ UNCHANGED shared

\* `Singleton(value)` or `SubSingleton(value)`: both classes have the
\* metaclass, so both calls are SingletonMeta.__call__ with their `cls`
Sub_test_singleton(t) ==
    \E c \in MetaFamily, v \in Values :
        Begin(t, MetaSubProgram, c, v, "m_acquire",
              c \in DOMAIN SingletonMeta_instances, FALSE)

InitMetaSub == Start(MetaSubProgram)

NextMetaSub ==
    \E t \in Threads :
        \/ Sub_test_singleton(t)
        \/ Meta_Acquire(t)
        \/ Meta_Check(t)
        \/ Meta_New(t)
        \/ Meta_Init(t)
        \/ Meta_Store(t)
        \/ Meta_Release(t)
        \/ Meta_Return(t)
        \/ ReadValue(t)

SpecMetaSub == InitMetaSub /\ [][NextMetaSub]_vars

\* ------------------------------------------------------------------------
\* The lock-based accessors, each in its own process, called by NThreads
\* threads
\* ------------------------------------------------------------------------
Next ==
    \E t \in Threads :
        \/ TS_test_singleton(t)
        \/ TS_FirstCheck(t)
        \/ TS_Acquire(t)
        \/ TS_SecondCheck(t)
        \/ TS_New(t)
        \/ TS_Init(t)
        \/ TS_Store(t)
        \/ TS_Release(t)
        \/ TS_Return(t)
        \/ Meta_test_singleton(t)
        \/ Meta_Acquire(t)
        \/ Meta_Check(t)
        \/ Meta_New(t)
        \/ Meta_Init(t)
        \/ Meta_Store(t)
        \/ Meta_Release(t)
        \/ Meta_Return(t)
        \/ ReadValue(t)

Spec == Init /\ [][Next]_vars

\* A statement of thread t inside a call it has begun. Each thread is a
\* threading.Thread that was started (process1.start(), process2.start()),
\* so the interpreter keeps running it while it has a statement to run.
ThreadStep(t) ==
    \/ TS_FirstCheck(t)
    \/ TS_Acquire(t)
    \/ TS_SecondCheck(t)
    \/ TS_New(t)
    \/ TS_Init(t)
    \/ TS_Store(t)
    \/ TS_Release(t)
    \/ TS_Return(t)
    \/ Meta_Acquire(t)
    \/ Meta_Check(t)
    \/ Meta_New(t)
    \/ Meta_Init(t)
    \/ Meta_Store(t)
    \/ Meta_Release(t)
    \/ Meta_Return(t)
    \/ ReadValue(t)

\* The same program under a fair scheduler: no thread that can run a
\* statement is left waiting forever.
FairSpec == Spec /\ \A t \in Threads : WF_vars(ThreadStep(t))

\* ------------------------------------------------------------------------
\* Conceptual/NonThreadSafe/main.py (Structure/main.py has the same code)
\* ------------------------------------------------------------------------

\* client code, `Singleton.get_instance()`
NTS_get_instance(t) ==
    Begin(t, NTSProgram, NTSClass, NoValue, "n_check",
          NTS_instance # None, FALSE)

\* a client calls the constructor itself, `Singleton()`
NTS_Singleton(t) ==
    Begin(t, NTSProgram, NTSClass, NoValue, "n_new",
          NTS_instance # None, TRUE)

\* Mutation of NTS_Check: get_instance constructs on every call.
NTS_CheckDropped(t) ==
    /\ pc[t] = "n_check"
    /\ Goto(t, "n_new")
    /\ UNCHANGED <<shared, frame, results>>

\* line 52, `if not Singleton._instance:`
NTS_Check(t) ==
    /\ pc[t] = "n_check"
    /\ IF NTS_instance = None
         THEN Goto(t, "n_new")
         ELSE Goto(t, "n_return")
    /\ UNCHANGED <<shared, frame, results>>

\* line 53, `Singleton()` with the class named in get_instance, or the
\* client's own constructor call: the object is allocated
NTS_New(t) ==
    /\ pc[t] = "n_new"
    /\ heap' = New(IF direct[t] THEN cls[t] ELSE NTSClass, arg[t])
    /\ self' = [self EXCEPT ![t] = Len(heap) + 1]
    /\ Goto(t, "n_init")
    /\ UNCHANGED <<patterns, program, tsShared, metaShared, NTS_instance, ncalls,
                   cls, arg, direct, startPop, results>>

\* Mutation of NTS_InitCheck: __init__ does not look at the slot.
NTS_InitCheckDropped(t) ==
    /\ pc[t] = "n_init"
    /\ Goto(t, "n_store")
    /\ UNCHANGED <<shared, frame, results>>

\* lines 32-33, `if Singleton._instance is not None: raise ReferenceError`;
\* the exception leaves __init__ and, under get_instance, get_instance too
NTS_InitCheck(t) ==
    /\ pc[t] = "n_init"
    /\ IF NTS_instance # None
         THEN Raise(t, "ReferenceError")
         ELSE /\ Goto(t, "n_store")
              /\ UNCHANGED <<frame, results>>
    /\ UNCHANGED shared

\* Mutation of NTS_InitStore: __init__ does not record the object.
NTS_InitStoreDropped(t) ==
    /\ pc[t] = "n_store"
    /\ IF direct[t]
         THEN /\ ret' = [ret EXCEPT ![t] = self[t]]
              /\ End(t)
              /\ UNCHANGED <<seen, err>>
         ELSE /\ Goto(t, "n_return")
              /\ UNCHANGED <<frame, results>>
    /\ UNCHANGED shared

\* lines 34-35, `else: Singleton._instance = self`; a direct call then
\* returns the new object to the client, get_instance goes on to line 54
NTS_InitStore(t) ==
    /\ pc[t] = "n_store"
    /\ NTS_instance' = self[t]
    /\ IF direct[t]
         THEN /\ ret' = [ret EXCEPT ![t] = self[t]]
              /\ End(t)
              /\ UNCHANGED <<seen, err>>
         ELSE /\ Goto(t, "n_return")
              /\ UNCHANGED <<frame, results>>
    /\ UNCHANGED <<patterns, program, heap, tsShared, metaShared, ncalls>>

\* line 54, `return Singleton._instance`
NTS_Return(t) ==
    /\ pc[t] = "n_return"
    /\ ret' = [ret EXCEPT ![t] = NTS_instance]
    /\ End(t)
    /\ UNCHANGED <<shared, seen, err>>

InitNTS == Start(NTSProgram)

NextNTS ==
    \E t \in Threads :
        \/ NTS_get_instance(t)
        \/ NTS_Singleton(t)
        \/ NTS_Check(t)
        \/ NTS_New(t)
        \/ NTS_InitCheck(t)
        \/ NTS_InitStore(t)
        \/ NTS_Return(t)

SpecNTS == InitNTS /\ [][NextNTS]_vars

\* ------------------------------------------------------------------------
\* Conceptual/NonThreadSafe/main.py, clients that go through get_instance
\* ------------------------------------------------------------------------

\* lines 71-72, `s1 = Singleton.get_instance()`, `s2 = ...`: the next call
\* begins when the one before it has returned
Seq_get_instance(t) ==
    /\ \A u \in Threads : pc[u] = "idle"
    /\ Begin(t, NTSSequential, NTSClass, NoValue, "n_check",
             NTS_instance # None, FALSE)

\* `Singleton()` as the very first statement of the client
Seq_Singleton(t) ==
    /\ ncalls = 0
    /\ Begin(t, NTSSequential, NTSClass, NoValue, "n_new",
             NTS_instance # None, TRUE)

\* `Singleton.get_instance()` as the target of several threads
Par_get_instance(t) ==
    Begin(t, NTSAccessorOnly, NTSClass, NoValue, "n_check",
          NTS_instance # None, FALSE)

InitNTSUse == \E p \in {NTSSequential, NTSAccessorOnly} : Start(p)

NextNTSUse ==
    \E t \in Threads :
        \/ Seq_get_instance(t)
        \/ Seq_Singleton(t)
        \/ Par_get_instance(t)
        \/ NTS_Check(t)
        \/ NTS_New(t)
        \/ NTS_InitCheck(t)
        \/ NTS_InitStore(t)
        \/ NTS_Return(t)

SpecNTSUse == InitNTSUse /\ [][NextNTSUse]_vars

\* ------------------------------------------------------------------------
\* The static get_instance accessors called through a subclass
\* ------------------------------------------------------------------------

\* `Singleton.get_instance(value)` or `SubSingleton.get_instance(value)`:
\* the static method is inherited, the call runs the same body
Sub_TS_get_instance(t) ==
    \E c \in {TSClass, TSSubClass}, v \in Values :
        Begin(t, TSProgram, c, v, "ts_check1", Singleton_instance # None, FALSE)

\* `Singleton.get_instance()` or `SubSingleton.get_instance()`
Sub_NTS_get_instance(t) ==
    \E c \in {NTSClass, NTSSubClass} :
        Begin(t, NTSProgram, c, NoValue, "n_check", NTS_instance # None, FALSE)

InitStaticSub == \E p \in {TSProgram, NTSProgram} : Start(p)

NextStaticSub ==
    \E t \in Threads :
        \/ Sub_TS_get_instance(t)
        \/ TS_FirstCheck(t)
        \/ TS_Acquire(t)
        \/ TS_SecondCheck(t)
        \/ TS_New(t)
        \/ TS_Init(t)
        \/ TS_Store(t)
        \/ TS_Release(t)
        \/ TS_Return(t)
        \/ ReadValue(t)
        \/ Sub_NTS_get_instance(t)
        \/ NTS_Check(t)
        \/ NTS_New(t)
        \/ NTS_InitCheck(t)
        \/ NTS_InitStore(t)
        \/ NTS_Return(t)

SpecStaticSub == InitStaticSub /\ [][NextStaticSub]_vars

\* ------------------------------------------------------------------------
\* Structural/thread_safe/main.py with clients that also call the
\* constructor themselves
\* ------------------------------------------------------------------------

\* a client's `Singleton(value)`
TS_Singleton(t) ==
    \E v \in Values :
        Begin(t, TSProgram, TSClass, v, "tsd_new", Singleton_instance # None, TRUE)

\* type.__call__ for the client's `Singleton(value)`: the object is allocated
TS_DirectNew(t) ==
    /\ pc[t] = "tsd_new"
    /\ heap' = New(cls[t], arg[t])
    /\ self' = [self EXCEPT ![t] = Len(heap) + 1]
    /\ Goto(t, "tsd_init")
    /\ UNCHANGED <<patterns, program, tsShared, metaShared, NTS_instance, ncalls,
                   cls, arg, direct, startPop, results>>

\* lines 34-35, `__init__`: `self.value = value`, nothing else; the new
\* object is then the value of the client's constructor call
TS_DirectInit(t) ==
    /\ pc[t] = "tsd_init"
    /\ heap' = SetValue(self[t], arg[t])
    /\ ret' = [ret EXCEPT ![t] = self[t]]
    /\ End(t)
    /\ UNCHANGED <<patterns, program, tsShared, metaShared, NTS_instance, ncalls,
                   seen, err>>

InitTSDirect == Start(TSProgram)

NextTSDirect ==
    \E t \in Threads :
        \/ TS_test_singleton(t)
        \/ TS_FirstCheck(t)
        \/ TS_Acquire(t)
        \/ TS_SecondCheck(t)
        \/ TS_New(t)
        \/ TS_Init(t)
        \/ TS_Store(t)
        \/ TS_Release(t)
        \/ TS_Return(t)
        \/ ReadValue(t)
        \/ TS_Singleton(t)
        \/ TS_DirectNew(t)
        \/ TS_DirectInit(t)

SpecTSDirect == InitTSDirect /\ [][NextTSDirect]_vars

\* ------------------------------------------------------------------------
\* Observer/Conceptual/main.py
\* ------------------------------------------------------------------------
ObserverProgram == "Observer/Conceptual"

Range(q) == {q[i] : i \in 1..Len(q)}

\* `self._observers`, read on subject s: no method assigns the attribute on
\* an instance, so the lookup ends at the class attribute of line 85.
ObserversOf(s) == obs._observers

\* list.remove(x): the list without the first element equal to x
RemoveFirst(q, x) ==
    LET i == CHOOSE j \in 1..Len(q) :
                 q[j] = x /\ \A k \in 1..(j - 1) : q[k] # x
    IN  SubSeq(q, 1, i - 1) \o SubSeq(q, i + 1, Len(q))

\* lines 167-176, update(subject) of observer o: does it print a reaction
Reacts(o, state) ==
    IF o = "a" THEN state < 3
    ELSE state = 0 \/ state >= 2

\* lines 115-117, notify() of subject s with its _state being `state`:
\* update(self) on every element of self._observers, in order; with _state
\* still None the first update raises TypeError on its comparison.
NotifyLog(s, state) ==
    LET q == ObserversOf(s) IN
    IF q # <<>> /\ state = NoState
      THEN [op |-> "notify", subject |-> s, passed |-> <<q[1]>>,
            reacted |-> {}, err |-> "TypeError"]
      ELSE [op |-> "notify", subject |-> s, passed |-> q,
            reacted |-> {o \in Range(q) : Reacts(o, state)}, err |-> "-"]

\* lines 95-97, attach(observer) on subject s
Obs_attach(s, o) ==
    /\ program = ObserverProgram
    /\ Len(ObserversOf(s)) < MaxObservers
    /\ obs' = [obs EXCEPT
                 !._observers = Append(ObserversOf(s), o),
                 !.attachedTo = @ \cup {<<s, o>>},
                 !.log = [op |-> "attach", subject |-> s, passed |-> <<>>,
                          reacted |-> {}, err |-> "-"]]
    /\ UNCHANGED <<program, singletons, iter, fly, bld>>

\* lines 99-100, detach(observer) on subject s; list.remove raises
\* ValueError when the observer is not in the list
Obs_detach(s, o) ==
    /\ program = ObserverProgram
    /\ IF o \in Range(ObserversOf(s))
         THEN obs' = [obs EXCEPT
                        !._observers = RemoveFirst(ObserversOf(s), o),
                        !.log = [op |-> "detach", subject |-> s,
                                 passed |-> <<>>, reacted |-> {}, err |-> "-"]]
         ELSE obs' = [obs EXCEPT
                        !.log = [op |-> "detach", subject |-> s,
                                 passed |-> <<>>, reacted |-> {},
                                 err |-> "ValueError"]]
    /\ UNCHANGED <<program, singletons, iter, fly, bld>>

\* lines 108-117, notify() on subject s, called by a client
Obs_notify(s) ==
    /\ program = ObserverProgram
    /\ obs' = [obs EXCEPT !.log = NotifyLog(s, obs._state[s])]
    /\ UNCHANGED <<program, singletons, iter, fly, bld>>

\* lines 119-136, some_business_logic() on subject s: the instance gets
\* its own _state, then notify()
Obs_some_business_logic(s) ==
    /\ program = ObserverProgram
    /\ \E v \in StateSamples :
          obs' = [obs EXCEPT !._state[s] = v, !.log = NotifyLog(s, v)]
    /\ UNCHANGED <<program, singletons, iter, fly, bld>>

InitObserver == Start(ObserverProgram)

NextObserver ==
    \E s \in Subjects :
        \/ \E o \in Observers : Obs_attach(s, o)
        \/ \E o \in Observers : Obs_detach(s, o)
        \/ Obs_notify(s)
        \/ Obs_some_business_logic(s)

SpecObserver == InitObserver /\ [][NextObserver]_vars

\* ------------------------------------------------------------------------
\* Iterator/Conceptual/main.py
\* ------------------------------------------------------------------------
IteratorProgram == "Iterator/Conceptual"

\* list[i] of Python: does index i (negative ones count from the end)
\* raise IndexError, and the element it reads otherwise
IndexError(q, i) == IF i >= 0 THEN i >= Len(q) ELSE -i > Len(q)
GetItem(q, i) == IF i >= 0 THEN q[i + 1] ELSE q[Len(q) + i + 1]

\* lines 58-61, AlphabeticalOrderIterator.__init__; `last` is what the
\* latest __next__ call on the iterator ended with
NewIterator(reverse) ==
    [_position |-> IF reverse THEN -1 ELSE 0,
     _reverse |-> reverse,
     last |-> NotCalled]

\* lines 93-101, WordsCollection.__iter__
It_iter ==
    /\ program = IteratorProgram
    /\ Len(iter.iterators) < MaxIterators
    /\ iter' = [iter EXCEPT !.iterators = Append(@, NewIterator(FALSE))]
    /\ UNCHANGED <<program, singletons, obs, fly, bld>>

\* lines 103-104, WordsCollection.get_reverse_iterator
It_get_reverse_iterator ==
    /\ program = IteratorProgram
    /\ Len(iter.iterators) < MaxIterators
    /\ iter' = [iter EXCEPT !.iterators = Append(@, NewIterator(TRUE))]
    /\ UNCHANGED <<program, singletons, obs, fly, bld>>

\* lines 106-107, WordsCollection.add_item
It_add_item(item) ==
    /\ program = IteratorProgram
    /\ Len(iter._collection) < MaxItems
    /\ iter' = [iter EXCEPT !._collection = Append(@, item)]
    /\ UNCHANGED <<program, singletons, obs, fly, bld>>

\* lines 63-78, AlphabeticalOrderIterator.__next__ on iterator k
It_next(k) ==
    /\ program = IteratorProgram
    /\ k \in 1..Len(iter.iterators)
    /\ LET it == iter.iterators[k] IN
       IF IndexError(iter._collection, it._position)
         THEN iter' = [iter EXCEPT !.iterators[k].last = StopIteration]
         ELSE iter' = [iter EXCEPT
                         !.iterators[k].last =
                             GetItem(iter._collection, it._position),
                         !.iterators[k]._position =
                             IF it._reverse THEN @ - 1 ELSE @ + 1]
    /\ UNCHANGED <<program, singletons, obs, fly, bld>>

InitIterator == Start(IteratorProgram)

NextIterator ==
    \/ It_iter
    \/ It_get_reverse_iterator
    \/ \E item \in Words : It_add_item(item)
    \/ \E k \in 1..MaxIterators : It_next(k)

SpecIterator == InitIterator /\ [][NextIterator]_vars

\* ------------------------------------------------------------------------
\* Flyweight/Conceptual/main.py
\* ------------------------------------------------------------------------
FlyweightProgram == "Flyweight/Conceptual"

\* str <= str of Python: lexicographic order on code points
RECURSIVE StrLeq(_, _)
StrLeq(u, v) ==
    IF u = <<>> THEN TRUE
    ELSE IF v = <<>> THEN FALSE
    ELSE IF u[1] # v[1] THEN u[1] < v[1]
    ELSE StrLeq(Tail(u), Tail(v))

\* sorted(state), line 68: a stable ascending sort, here by insertion
RECURSIVE Insert(_, _)
Insert(x, q) ==
    IF q = <<>> THEN <<x>>
    ELSE IF StrLeq(q[1], x) THEN <<q[1]>> \o Insert(x, Tail(q))
    ELSE <<x>> \o q

RECURSIVE sorted(_)
sorted(q) ==
    IF q = <<>> THEN <<>>
    ELSE Insert(q[Len(q)], sorted(SubSeq(q, 1, Len(q) - 1)))

\* sep.join(q), line 68
RECURSIVE join(_, _)
join(sep, q) ==
    IF q = <<>> THEN <<>>
    ELSE IF Len(q) = 1 THEN q[1]
    ELSE q[1] \o sep \o join(sep, Tail(q))

\* lines 61-68, FlyweightFactory.get_key
get_key(state) == join(<<Underscore>>, sorted(state))

\* `self._flyweights`, read on any factory: no method assigns the
\* attribute on an instance, so the lookup ends at the class attribute of
\* line 55.
FlyweightsOf(f) == fly._flyweights

\* d[k] = v on a dict d (a function from its keys)
SetItem(d, k, v) ==
    [x \in DOMAIN d \cup {k} |-> IF x = k THEN v ELSE d[x]]

\* lines 58-59: the loop of __init__ over the states q, on dict d with n
\* Flyweight objects already constructed; one new object per state
RECURSIVE Populate(_, _, _)
Populate(d, n, q) ==
    IF q = <<>> THEN d
    ELSE Populate(SetItem(d, get_key(q[1]), n + 1), n + 1, Tail(q))

\* the lists of initial flyweights a client passes to the constructor
InitialLists ==
    UNION {[1..n -> SharedStates] : n \in 0..MaxInitial}

\* lines 57-59, FlyweightFactory(initial_flyweights)
Fly_FlyweightFactory(initial_flyweights) ==
    /\ program = FlyweightProgram
    /\ fly.factories < MaxFactories
    /\ Len(fly.objects) + Len(initial_flyweights) <= MaxFlyweights
    /\ fly' = [fly EXCEPT
                 !._flyweights =
                     Populate(@, Len(fly.objects), initial_flyweights),
                 !.objects = @ \o initial_flyweights,
                 !.factories = @ + 1,
                 !.log = [op |-> "FlyweightFactory", key |-> <<>>,
                          returned |-> None]]
    /\ UNCHANGED <<program, singletons, obs, iter, bld>>

\* lines 70-87, get_flyweight(shared_state) on factory f
Fly_get_flyweight(f, shared_state) ==
    /\ program = FlyweightProgram
    /\ f \in 1..fly.factories
    /\ LET key == get_key(shared_state)
           found == key \in DOMAIN FlyweightsOf(f)
           flyweight == IF found THEN FlyweightsOf(f)[key]
                        ELSE Len(fly.objects) + 1
       IN  /\ found \/ Len(fly.objects) < MaxFlyweights
           /\ fly' = [fly EXCEPT
                        !._flyweights =
                            IF found THEN @ ELSE SetItem(@, key, flyweight),
                        !.objects =
                            IF found THEN @ ELSE Append(@, shared_state),
                        !.given = SetItem(@, key, flyweight),
                        !.log = [op |-> "get_flyweight", key |-> key,
                                 returned |-> flyweight]]
    /\ UNCHANGED <<program, singletons, obs, iter, bld>>

InitFlyweight == Start(FlyweightProgram)

NextFlyweight ==
    \/ \E l \in InitialLists : Fly_FlyweightFactory(l)
    \/ \E f \in 1..MaxFactories, st \in SharedStates :
           Fly_get_flyweight(f, st)

SpecFlyweight == InitFlyweight /\ [][NextFlyweight]_vars

\* ------------------------------------------------------------------------
\* Builder/Conceptual/main.py
\* ------------------------------------------------------------------------
BuilderProgram == "Builder/Conceptual"

\* number of parts held by all Product1 objects of builder state b
RECURSIVE PartsIn(_)
PartsIn(objects) ==
    IF objects = <<>> THEN 0
    ELSE Len(objects[1]) + PartsIn(Tail(objects))

\* lines 68-69, reset(): a new Product1, whose __init__ (lines 132-133)
\* gives it a list of its own
Reset(b) ==
    [b EXCEPT !.objects = Append(@, <<>>),
              !._product = Len(b.objects) + 1,
              !.sinceReset = <<>>]

\* lines 135-136, self._product.add(part)
Add(b, part) ==
    [b EXCEPT !.objects[b._product] = Append(@, part),
              !.sinceReset = Append(@, part)]

\* lines 68-69, reset() called by a client
Bld_reset ==
    /\ program = BuilderProgram
    /\ Len(bld.objects) < MaxProducts
    /\ bld' = Reset(bld)
    /\ UNCHANGED <<program, singletons, obs, iter, fly>>

\* lines 101-103 with reset() left out: the product is returned and the
\* builder keeps it
Bld_productKept ==
    /\ program = BuilderProgram
    /\ Len(bld.handed) < MaxProducts
    /\ bld' = [bld EXCEPT
                 !.handed = Append(@, [product |-> bld._product,
                                       parts |-> bld.objects[bld._product]])]
    /\ UNCHANGED <<program, singletons, obs, iter, fly>>

\* lines 71-103, the `product` property read by a client
Bld_product ==
    /\ program = BuilderProgram
    /\ Len(bld.objects) < MaxProducts
    /\ bld' = [Reset(bld) EXCEPT
                 !.handed = Append(@, [product |-> bld._product,
                                       parts |-> bld.objects[bld._product]])]
    /\ UNCHANGED <<program, singletons, obs, iter, fly>>

\* lines 105-112, produce_part_a / _b / _c
Bld_produce_part(part) ==
    /\ program = BuilderProgram
    /\ PartsIn(bld.objects) < MaxParts
    /\ bld' = Add(bld, part)
    /\ UNCHANGED <<program, singletons, obs, iter, fly>>

Bld_produce_part_a == Bld_produce_part("PartA1")
Bld_produce_part_b == Bld_produce_part("PartB1")
Bld_produce_part_c == Bld_produce_part("PartC1")

\* lines 183-184, Director.build_minimal_viable_product on the builder of
\* line 205
Dir_build_minimal_viable_product ==
    /\ program = BuilderProgram
    /\ PartsIn(bld.objects) < MaxParts
    /\ bld' = Add(bld, "PartA1")
    /\ UNCHANGED <<program, singletons, obs, iter, fly>>

\* lines 186-189, Director.build_full_featured_product
Dir_build_full_featured_product ==
    /\ program = BuilderProgram
    /\ PartsIn(bld.objects) + 3 <= MaxParts
    /\ bld' = Add(Add(Add(bld, "PartA1"), "PartB1"), "PartC1")
    /\ UNCHANGED <<program, singletons, obs, iter, fly>>

InitBuilder == Start(BuilderProgram)

NextBuilder ==
    \/ Bld_reset
    \/ Bld_product
    \/ Bld_produce_part_a
    \/ Bld_produce_part_b
    \/ Bld_produce_part_c
    \/ Dir_build_minimal_viable_product
    \/ Dir_build_full_featured_product

SpecBuilder == InitBuilder /\ [][NextBuilder]_vars

\* ------------------------------------------------------------------------
\* The lock-based accessors when the construction inside the `with` block
\* raises
\* ------------------------------------------------------------------------
TSRaiseProgram == "Structural/thread_safe, construction may raise"
MetaRaiseProgram == "Conceptual/ThreadSafe, construction may raise"

\* thread_safe test_singleton(value), lines 70-71
Raise_TS_test_singleton(t) ==
    \E v \in Values :
        Begin(t, TSRaiseProgram, TSClass, v, "ts_check1",
              Singleton_instance # None, FALSE)

\* thread_safe line 55, `Singleton(value)`: the allocation fails and
\* raises MemoryError; nothing is assigned
TS_NewRaises(t) ==
    /\ pc[t] = "ts_new"
    /\ program = TSRaiseProgram
    /\ err' = [err EXCEPT ![t] = "MemoryError"]
    /\ Goto(t, "ts_unwind")
    /\ UNCHANGED <<shared, frame, ret, seen>>

\* Mutation of TS_Unwind: the exception leaves get_instance with the lock
\* still held (an acquire() without try/finally instead of `with`).
TS_UnwindKeepsLock(t) ==
    /\ pc[t] = "ts_unwind"
    /\ End(t)
    /\ UNCHANGED <<shared, results>>

\* thread_safe line 53, `with` exit on an exception: the lock is released
\* and the exception goes on to the caller of get_instance
TS_Unwind(t) ==
    /\ pc[t] = "ts_unwind"
    /\ Singleton_lock' = None
    /\ End(t)
    /\ UNCHANGED <<patterns, program, heap, Singleton_instance, metaShared,
                   NTS_instance, ncalls, results>>

\* ThreadSafe `Singleton(value)` as in test_singleton (lines 98-99), or
\* `Singleton()` with the argument of __init__ missing
Raise_Meta_test_singleton(t) ==
    \E c \in MetaClasses, v \in Values \cup {NoValue} :
        Begin(t, MetaRaiseProgram, c, v, "m_acquire",
              c \in DOMAIN SingletonMeta_instances, FALSE)

\* ThreadSafe line 72, `super().__call__(*args, **kwargs)` with no
\* argument: __init__ (line 86) requires `value`, the call raises TypeError
Meta_InitRaises(t) ==
    /\ pc[t] = "m_init"
    /\ arg[t] = NoValue
    /\ err' = [err EXCEPT ![t] = "TypeError"]
    /\ Goto(t, "m_unwind")
    /\ UNCHANGED <<shared, frame, ret, seen>>

\* ThreadSafe line 55, `with` exit on an exception
Meta_Unwind(t) ==
    /\ pc[t] = "m_unwind"
    /\ SingletonMeta_lock' = None
    /\ End(t)
    /\ UNCHANGED <<patterns, program, heap, tsShared, SingletonMeta_instances,
                   NTS_instance, ncalls, results>>

InitRaise == \E p \in {TSRaiseProgram, MetaRaiseProgram} : Start(p)

\* a statement of thread t inside a call it has begun
RaiseThreadStep(t) ==
    \/ ThreadStep(t)
    \/ TS_NewRaises(t)
    \/ TS_Unwind(t)
    \/ Meta_InitRaises(t)
    \/ Meta_Unwind(t)

NextRaise ==
    \E t \in Threads :
        \/ Raise_TS_test_singleton(t)
        \/ Raise_Meta_test_singleton(t)
        \/ RaiseThreadStep(t)

\* the threads are started threads, run by a fair scheduler
SpecRaise ==
    /\ InitRaise
    /\ [][NextRaise]_vars
    /\ \A t \in Threads : WF_vars(RaiseThreadStep(t))

\* ========================================================================
\* Properties
\* ========================================================================

\* The accessor call thread t made last has returned to test_singleton
\* (or ended with an exception).
AccessorReturned(t) ==
    \/ pc[t] = "read_value"
    \/ pc[t] = "idle" /\ (ret[t] # None \/ err[t] # "-")

\* test_singleton has run to its end in thread t without an exception.
TestDone(t) == pc[t] = "idle" /\ ret[t] # None /\ err[t] = "-"

\* The slot of class c: the registry entry, or the class attribute.
Slot(c) ==
    IF c = TSClass THEN Singleton_instance
    ELSE IF c = NTSClass THEN NTS_instance
    ELSE IF c \in DOMAIN SingletonMeta_instances THEN SingletonMeta_instances[c]
    ELSE None

\* ---- C1 ----------------------------------------------------------------
\* C1: Structural/thread_safe get_instance, any number of threads and any
\* interleaving: at most one thread_safe.Singleton object is ever
\* constructed, and every get_instance call that has returned, returned
\* that one object (so all calls return the same instance).
C1_OneConstructionDCL ==
    program = TSProgram =>
        /\ Cardinality(InstancesOf(TSClass)) <= 1
        /\ \A t \in Threads :
               AccessorReturned(t) => ret[t] \in InstancesOf(TSClass)
        /\ \A t, u \in Threads :
               AccessorReturned(t) /\ AccessorReturned(u) => ret[t] = ret[u]

\* Two threads began get_instance while the slot was empty and both have
\* returned, with the same reference.
C1_Witness ==
    /\ program = TSProgram
    /\ \E t, u \in Threads :
          /\ t # u
          /\ pc[t] = "read_value" /\ pc[u] = "read_value"
          /\ ~startPop[t] /\ ~startPop[u]
          /\ ret[t] # None /\ ret[t] = ret[u]

\* ---- C2 ----------------------------------------------------------------
\* C2: SingletonMeta.__call__, any number of threads and any interleaving:
\* type.__call__ / __init__ runs at most once per class, and every
\* Singleton(value) call that has returned, returned that one instance of
\* its class.
C2_OneConstructionMeta ==
    program = MetaProgram =>
        /\ \A c \in MetaClasses : Cardinality(InstancesOf(c)) <= 1
        /\ \A t \in Threads :
               AccessorReturned(t) =>
                   /\ err[t] = "-"
                   /\ ret[t] \in InstancesOf(cls[t])
        /\ \A t, u \in Threads :
               AccessorReturned(t) /\ AccessorReturned(u) /\ cls[t] = cls[u]
                   => ret[t] = ret[u]

\* Two threads called Singleton(value) while the class had no instance and
\* both have returned, with the same reference.
C2_Witness ==
    /\ program = MetaProgram
    /\ \E t, u \in Threads :
          /\ t # u
          /\ pc[t] = "read_value" /\ pc[u] = "read_value"
          /\ cls[t] = cls[u]
          /\ ~startPop[t] /\ ~startPop[u]
          /\ ret[t] # None /\ ret[t] = ret[u]

\* ---- C3 ----------------------------------------------------------------
\* C3: in both lock-based accessors the slot is write-once: a step that
\* starts with the slot populated leaves the same instance in it (never
\* another instance, never empty again).
C3_SlotWriteOnce ==
    [][/\ Singleton_instance # None
            => Singleton_instance' = Singleton_instance
       /\ \A c \in DOMAIN SingletonMeta_instances :
            /\ c \in DOMAIN SingletonMeta_instances'
            /\ SingletonMeta_instances'[c] = SingletonMeta_instances[c]
      ]_vars

\* The registry is populated and a later caller holds the lock, about to
\* decide whether to construct.
C3_Witness ==
    /\ program = MetaProgram
    /\ \E t \in Threads :
          /\ pc[t] = "m_check"
          /\ SingletonMeta_lock = t
          /\ cls[t] \in DOMAIN SingletonMeta_instances
          /\ \E u \in Threads : u # t /\ TestDone(u)

\* ---- C4 ----------------------------------------------------------------
\* C4: idempotence. A call of either lock-based accessor that begins when
\* the instance exists never reaches the constructor; the class still has
\* exactly one instance, and that instance is what the call returns.
C4_Idempotent ==
    \A t \in Threads :
        startPop[t] =>
            /\ pc[t] \notin {"ts_new", "ts_init", "ts_store",
                             "m_new", "m_init", "m_store"}
            /\ Cardinality(InstancesOf(cls[t])) = 1
            /\ AccessorReturned(t) =>
                   /\ ret[t] \in InstancesOf(cls[t])
                   /\ ret[t] = Slot(cls[t])

\* A thread's call populated the Meta registry, and another thread's call
\* begun afterwards has returned that instance.
C4_Witness ==
    /\ program = MetaProgram
    /\ \E t, u \in Threads :
          /\ t # u
          /\ TestDone(t) /\ ~startPop[t]
          /\ startPop[u] /\ pc[u] = "read_value"
          /\ ret[u] = ret[t]

\* ---- C5 ----------------------------------------------------------------
\* C5: test_singleton in both thread-safe scripts: every thread that ran
\* test_singleton to its end read one of the values passed, namely the
\* argument of the call that constructed the instance, and all threads
\* read the same value.
C5_OneValueRetained ==
    /\ \A t \in Threads :
           TestDone(t) =>
               /\ seen[t] \in Values
               /\ seen[t] = heap[ret[t]].args
    /\ \A t, u \in Threads :
           TestDone(t) /\ TestDone(u) /\ cls[t] = cls[u] => seen[t] = seen[u]

\* Two threads made the first access concurrently, one with "FOO" and one
\* with "BAR", and both have printed the same value.
C5_Witness ==
    \E t, u \in Threads :
        /\ TestDone(t) /\ TestDone(u)
        /\ ~startPop[t] /\ ~startPop[u]
        /\ arg[t] = "FOO" /\ arg[u] = "BAR"
        /\ seen[t] = seen[u]
        /\ seen[t] \in Values

\* ---- C6 ----------------------------------------------------------------
\* C6: arguments of non-first calls are ignored. A call with value B that
\* begins when the slot holds an instance constructed with value A returns
\* that instance and its value field still reads A; no object's value
\* differs from the argument it was constructed with.
C6_LaterArgsIgnored ==
    /\ \A o \in Objects : heap[o].value \in {NoValue, heap[o].args}
    /\ \A t \in Threads :
           startPop[t] /\ TestDone(t) =>
               /\ ret[t] = Slot(cls[t])
               /\ seen[t] = heap[ret[t]].args
               /\ heap[ret[t]].value = heap[ret[t]].args

\* A get_instance call made after the slot was populated, with a value
\* other than the constructed one, has printed the constructed value.
C6_Witness ==
    /\ program = TSProgram
    /\ \E t \in Threads :
          /\ startPop[t] /\ TestDone(t)
          /\ seen[t] \in Values
          /\ arg[t] # seen[t]

\* ---- C7 ----------------------------------------------------------------
\* C7: no caller observes a partially constructed instance: whatever is in
\* a slot, and whatever reference an accessor has returned, is an object
\* whose __init__ has set its value field.
C7_NoPartialInstance ==
    /\ \A c \in MetaClasses \cup {TSClass} :
           Slot(c) # None => heap[Slot(c)].value \in Values
    /\ \A t \in Threads :
           ret[t] # None => heap[ret[t]].value \in Values

\* A thread took the unguarded fast path of get_instance while the
\* constructing thread was still inside the `with` block.
C7_Witness ==
    /\ program = TSProgram
    /\ \E t, u \in Threads :
          /\ t # u
          /\ pc[t] = "ts_release" /\ Singleton_lock = t
          /\ self[t] = Singleton_instance
          /\ pc[u] = "read_value" /\ ~startPop[u]
          /\ ret[u] = Singleton_instance

\* ---- C8 ----------------------------------------------------------------
\* C8: fast path of Structural/thread_safe get_instance: a call that begins
\* when the slot is populated never waits for the lock and never holds it.
C8_FastPathDCL ==
    \A t \in Threads :
        program = TSProgram /\ startPop[t] =>
            /\ pc[t] \in {"ts_check1", "ts_return", "read_value", "idle"}
            /\ Singleton_lock # t

\* A call begun with the slot populated has returned the instance while
\* another thread holds the lock.
C8_Witness ==
    /\ program = TSProgram
    /\ \E t, u \in Threads :
          /\ t # u
          /\ startPop[t] /\ pc[t] = "read_value"
          /\ ret[t] = Singleton_instance
          /\ Singleton_lock = u

\* ---- C9 ----------------------------------------------------------------
\* C9: SingletonMeta.__call__: a call that begins when the class's slot is
\* populated never waits for the lock and never holds it.
C9_FastPathMeta ==
    \A t \in Threads :
        program = MetaProgram /\ startPop[t] =>
            /\ pc[t] \notin {"m_acquire", "m_check", "m_release"}
            /\ SingletonMeta_lock # t

\* ---- C10 ---------------------------------------------------------------
\* C10: non-thread-safe variant, a direct constructor call Singleton().
\* When __init__ finds the slot empty the call goes on to store the new
\* object in the slot and returns it without an exception; when it finds
\* the slot populated the call ends there with ReferenceError, returns
\* nothing and leaves the slot as it was. A direct call begun with the slot
\* populated always ends with ReferenceError.
C10_BypassRejection ==
    [][\A t \in Threads :
          direct[t] =>
            /\ pc[t] = "n_init" /\ pc'[t] # "n_init" =>
                 /\ NTS_instance' = NTS_instance
                 /\ IF NTS_instance = None
                      THEN pc'[t] = "n_store" /\ err'[t] = "-"
                      ELSE /\ pc'[t] = "idle"
                           /\ err'[t] = "ReferenceError"
                           /\ ret'[t] = None
            /\ pc[t] = "n_store" /\ pc'[t] # "n_store" =>
                 /\ pc'[t] = "idle"
                 /\ NTS_instance' = self[t]
                 /\ ret'[t] = self[t]
                 /\ err'[t] = "-"
            /\ startPop[t] /\ pc[t] # "idle" /\ pc'[t] = "idle" =>
                 err'[t] = "ReferenceError"
      ]_vars

\* One thread's direct construction populated the slot; another thread's
\* direct construction, begun afterwards, was rejected and the slot still
\* holds the first object.
C10_Witness ==
    /\ program = NTSProgram
    /\ \E t, u \in Threads :
          /\ t # u
          /\ direct[t] /\ pc[t] = "idle" /\ err[t] = "-" /\ ret[t] # None
          /\ direct[u] /\ pc[u] = "idle" /\ startPop[u]
          /\ err[u] = "ReferenceError" /\ ret[u] = None
          /\ NTS_instance = ret[t]

\* ---- C11 ---------------------------------------------------------------
\* C11: the lock-based accessors never fail: no call of get_instance or of
\* SingletonMeta.__call__ (nor the read of singleton.value after it) ends
\* with an exception, and a call that has returned has returned an object.
C11_AccessorNeverFails ==
    \A t \in Threads :
        /\ err[t] = "-"
        /\ pc[t] = "read_value" => ret[t] \in Objects

\* Every call the bound allows has been made, by several threads, and all
\* threads are back in the client with an instance.
C11_Witness ==
    /\ program = MetaProgram
    /\ ncalls = MaxCalls
    /\ \A t \in Threads : TestDone(t)
    /\ \E t, u \in Threads : ~startPop[t] /\ startPop[u]

\* The call thread t made last is over.
CallOver(t) == pc[t] = "idle" /\ (ret[t] # None \/ err[t] # "-")

\* ---- C12 ---------------------------------------------------------------
\* C12 as claimed: when every caller goes through get_instance, no
\* get_instance call raises ReferenceError, also when several threads call
\* it concurrently while the slot is empty.
C12_AccessorNeverRaises ==
    \A t \in Threads : ~direct[t] => err[t] # "ReferenceError"

\* C12 as amended: a get_instance call does not raise ReferenceError when
\* calls are made one at a time, and in any interleaving when it begins
\* with the slot populated; a call that raises is one of several threads'
\* calls that began while the slot was empty.
C12_AccessorRaisesOnlyInRace ==
    \A t \in Threads :
        ~direct[t] /\ err[t] = "ReferenceError" =>
            /\ program = NTSAccessorOnly
            /\ ~startPop[t]
            /\ NTS_instance # None

\* One call at a time: the first get_instance constructed, a later one
\* returned the same object, nothing raised.
C12_Witness ==
    /\ program = NTSSequential
    /\ \E t, u \in Threads :
          /\ t # u
          /\ ~direct[t] /\ CallOver(t) /\ ~startPop[t] /\ err[t] = "-"
          /\ ~direct[u] /\ CallOver(u) /\ startPop[u] /\ err[u] = "-"
          /\ ret[t] = ret[u]

\* ---- C13 ---------------------------------------------------------------
\* C13: non-thread-safe variant, one call at a time, get_instance calls
\* optionally preceded by one direct construction: exactly one object is
\* ever constructed and every call returns it, without an exception.
C13_SequentialSingleInstance ==
    program = NTSSequential =>
        /\ Cardinality(InstancesOf(NTSClass)) <= 1
        /\ \A t \in Threads :
               CallOver(t) =>
                   /\ err[t] = "-"
                   /\ ret[t] = 1
                   /\ ret[t] \in InstancesOf(NTSClass)
                   /\ NTS_instance = ret[t]

\* A direct construction came first and a get_instance call made after it
\* returned the object so constructed.
C13_Witness ==
    /\ program = NTSSequential
    /\ \E t, u \in Threads :
          /\ t # u
          /\ direct[t] /\ CallOver(t)
          /\ ~direct[u] /\ CallOver(u)
          /\ ret[u] = ret[t]
          /\ Cardinality(Objects) = 1

\* ---- C14 ---------------------------------------------------------------
\* C14: one instance per class under SingletonMeta, with Singleton and a
\* subclass of it: each class has at most one instance, a class's slot
\* holds an instance of that very class (so the two instances differ),
\* every call returns the instance of the class it was made on, and a step
\* that populates one class's slot leaves the other's as it was.
C14_OnePerClass ==
    /\ [](/\ \A c \in MetaFamily :
               /\ Cardinality(InstancesOf(c)) <= 1
               /\ c \in DOMAIN SingletonMeta_instances =>
                      SingletonMeta_instances[c] \in InstancesOf(c)
          /\ \A t \in Threads :
               AccessorReturned(t) =>
                   /\ ret[t] \in InstancesOf(cls[t])
                   /\ ret[t] = Slot(cls[t]))
    /\ [][\A c, d \in MetaFamily :
            /\ c # d
            /\ c \notin DOMAIN SingletonMeta_instances
            /\ c \in DOMAIN SingletonMeta_instances'
            => /\ (d \in DOMAIN SingletonMeta_instances')
                      = (d \in DOMAIN SingletonMeta_instances)
               /\ Slot(d)' = Slot(d)
         ]_vars

\* Both classes have their instance, two different objects, each returned
\* to a thread that asked for its class.
C14_Witness ==
    /\ program = MetaSubProgram
    /\ DOMAIN SingletonMeta_instances = MetaFamily
    /\ \E t, u \in Threads :
          /\ TestDone(t) /\ TestDone(u)
          /\ cls[t] # cls[u]
          /\ ret[t] # ret[u]
          /\ heap[ret[t]].cls = cls[t] /\ heap[ret[u]].cls = cls[u]

\* ---- C15 ---------------------------------------------------------------
\* C15 as claimed: each class has its own guard: a thread waiting for the
\* lock in the accessor of one class never waits for a holder that runs the
\* accessor (or the constructor) of another class.
C15_PerClassGuard ==
    \A t \in Threads :
        pc[t] = "m_acquire" /\ SingletonMeta_lock # None =>
            cls[SingletonMeta_lock] = cls[t]

\* C15 as amended: the classes share the one lock SingletonMeta._lock. It
\* is held exactly by the thread that is inside the `with` block, whichever
\* class that thread's call is for; so at most one thread over all classes
\* is inside, and a caller for one class can wait for a holder for another.
C15_SharedGuard ==
    \A t \in Threads :
        (SingletonMeta_lock = t)
            = (pc[t] \in {"m_check", "m_new", "m_init", "m_store", "m_release"})

\* A thread calling one class waits for the lock while a thread that is
\* constructing the instance of the other class holds it.
C15_Witness ==
    /\ program = MetaSubProgram
    /\ \E t, u \in Threads :
          /\ pc[t] = "m_acquire"
          /\ SingletonMeta_lock = u
          /\ pc[u] = "m_init"
          /\ cls[u] # cls[t]

\* ---- C16 ---------------------------------------------------------------
\* C16: the static get_instance accessors keep one instance per subclass:
\* a call made through a class returns an instance of that class, and
\* calls made through different classes return different objects.
C16_InstancePerSubclass ==
    /\ \A t \in Threads :
           AccessorReturned(t) /\ ret[t] # None => heap[ret[t]].cls = cls[t]
    /\ \A t, u \in Threads :
           /\ AccessorReturned(t) /\ ret[t] # None
           /\ AccessorReturned(u) /\ ret[u] # None
           /\ cls[t] # cls[u]
           => ret[t] # ret[u]

\* ---- C17 ---------------------------------------------------------------
\* C17: the Structural/thread_safe Singleton class has a single instance:
\* whatever get_instance(value) and Singleton(value) calls are made, at
\* most one object of the class is ever constructed.
C17_SingleInstance ==
    Cardinality(InstancesOf(TSClass)) <= 1

\* ---- C18 ---------------------------------------------------------------
\* C18: an observer reacts only to updates of the subject it was attached
\* to: notify() of a subject calls update only on observers that were
\* attached to that subject, and attach() on one subject leaves the
\* observer list of every other subject as it was.
C18_OnlyOwnSubject ==
    /\ [](obs.log.op = "notify" =>
              \A o \in Range(obs.log.passed) :
                  <<obs.log.subject, o>> \in obs.attachedTo)
    /\ [][obs'.log.op = "attach" /\ obs' # obs =>
              \A s \in Subjects \ {obs'.log.subject} :
                  ObserversOf(s)' = ObserversOf(s)
         ]_vars

\* ---- C19 ---------------------------------------------------------------
\* C19: once __next__ of an iterator has raised StopIteration, every later
\* __next__ call on that iterator raises StopIteration too, whether the
\* iterator is a forward or a reverse one and whatever add_item calls
\* come in between.
C19_ExhaustedStaysExhausted ==
    [][\A k \in 1..Len(iter.iterators) :
           iter.iterators[k].last = StopIteration =>
               iter'.iterators[k].last = StopIteration
      ]_vars

\* ---- C20 ---------------------------------------------------------------
\* C20: whatever factories are constructed and whatever get_flyweight calls
\* are made, get_flyweight constructs a Flyweight only when the registry
\* holds none for the key, and a get_flyweight request returns the object
\* the earlier request with the same key returned.
C20_SharedPerKey ==
    [][fly'.log.op = "get_flyweight" /\ fly' # fly =>
           /\ Len(fly'.objects) > Len(fly.objects) =>
                  fly'.log.key \notin DOMAIN fly._flyweights
           /\ fly'.log.key \in DOMAIN fly.given =>
                  fly'.log.returned = fly.given[fly'.log.key]
      ]_vars

\* ---- C21 ---------------------------------------------------------------
\* C21: reading the `product` property returns the builder's product with
\* exactly the parts produced since the last reset, in call order, and
\* leaves the builder with a new, empty product; a product that was
\* returned keeps the parts it had when it was returned, whatever
\* produce_part_* calls follow.
C21_ProductHandedOver ==
    /\ [](\A i \in 1..Len(bld.handed) :
              bld.objects[bld.handed[i].product] = bld.handed[i].parts)
    /\ [][Len(bld'.handed) > Len(bld.handed) =>
              LET h == bld'.handed[Len(bld'.handed)] IN
              /\ h.product = bld._product
              /\ h.parts = bld.sinceReset
              /\ bld'._product \notin 1..Len(bld.objects)
              /\ bld'.objects[bld'._product] = <<>>
         ]_vars

\* A product with parts was returned and the builder has since produced
\* parts of the next product.
C21_Witness ==
    \E i \in 1..Len(bld.handed) :
        /\ Len(bld.handed[i].parts) >= 2
        /\ bld.handed[i].product # bld._product
        /\ bld.objects[bld._product] # <<>>

\* ---- C22 ---------------------------------------------------------------
\* The statements of the two accessors that lie inside the `with` block.
GuardedTS == {"ts_check2", "ts_new", "ts_init", "ts_store", "ts_release"}
GuardedMeta == {"m_check", "m_new", "m_init", "m_store", "m_release"}
InGuarded(t) == pc[t] \in GuardedTS \cup GuardedMeta

\* C22: in both lock-based accessors every write to the slot is made by a
\* thread that holds the lock, before and after the write, and at most one
\* thread is between acquiring the lock and releasing it.
C22_GuardedMutation ==
    /\ [](/\ Cardinality({t \in Threads : InGuarded(t)}) <= 1
          /\ \A t \in Threads :
                /\ pc[t] \in GuardedTS => Singleton_lock = t
                /\ pc[t] \in GuardedMeta => SingletonMeta_lock = t)
    /\ [][/\ Singleton_instance' # Singleton_instance =>
                \E t \in Threads :
                    /\ pc'[t] # pc[t]
                    /\ Singleton_lock = t /\ Singleton_lock' = t
          /\ SingletonMeta_instances' # SingletonMeta_instances =>
                \E t \in Threads :
                    /\ pc'[t] # pc[t]
                    /\ SingletonMeta_lock = t /\ SingletonMeta_lock' = t
         ]_vars

\* A thread has written the slot and still holds the lock, while another
\* thread that saw the slot empty waits for the lock.
C22_Witness ==
    \E t, u \in Threads :
        /\ t # u
        /\ pc[t] = "ts_release" /\ Singleton_lock = t
        /\ Singleton_instance = self[t] /\ self[t] # None
        /\ pc[u] = "ts_acquire"

\* ---- C23 ---------------------------------------------------------------
\* Thread t is inside an accessor call: get_instance or
\* SingletonMeta.__call__ has begun and has not returned or raised.
InAccessor(t) == pc[t] \notin {"idle", "read_value"}

\* C23: under a fair scheduler every accessor call that has begun
\* eventually returns, and whenever no thread is inside an accessor call
\* both locks are free.
C23_DeadlockFree ==
    /\ \A t \in Threads : InAccessor(t) ~> ~InAccessor(t)
    /\ []((\A t \in Threads : ~InAccessor(t)) =>
              Singleton_lock = None /\ SingletonMeta_lock = None)

\* A thread that saw the slot empty waited for the lock, found the slot
\* populated at the re-check and is about to release the lock without
\* having constructed anything.
C23_Witness ==
    \E t \in Threads :
        /\ pc[t] = "ts_release"
        /\ Singleton_lock = t
        /\ ~startPop[t]
        /\ self[t] = None
        /\ Singleton_instance # None

\* ---- C24 ---------------------------------------------------------------
\* Thread t's last call ended with the exception of the constructor.
ConstructorRaised(t) ==
    pc[t] = "idle" /\ err[t] \in {"MemoryError", "TypeError"}

\* C24: when the construction inside the `with` block raises, the step
\* that leaves the block ends the call with that exception and no return
\* value, releases the lock and leaves the slot empty; no thread outside
\* a call holds a lock; and later calls are not blocked: every call that
\* begins ends, and one that returned normally returned the instance in
\* the slot.
C24_RaiseReleasesLock ==
    /\ [][\A t \in Threads :
              pc[t] \in {"ts_unwind", "m_unwind"} /\ pc'[t] # pc[t] =>
                  /\ ConstructorRaised(t)'
                  /\ ret'[t] = None
                  /\ Singleton_lock' = None /\ SingletonMeta_lock' = None
                  /\ Slot(cls[t])' = None
         ]_vars
    /\ [](\A t \in Threads :
              /\ pc[t] = "idle" =>
                     Singleton_lock # t /\ SingletonMeta_lock # t
              /\ pc[t] = "read_value" =>
                     ret[t] # None /\ ret[t] = Slot(cls[t]))
    /\ \A t \in Threads : InAccessor(t) ~> ~InAccessor(t)

\* A first access ended with the constructor's exception, and a later
\* call of another thread constructed the instance, published it and
\* returned it.
C24_Witness ==
    \E t, u \in Threads :
        /\ t # u
        /\ ConstructorRaised(t)
        /\ cls[u] = cls[t]
        /\ TestDone(u)
        /\ ~startPop[u]
        /\ ret[u] = Slot(cls[u])

====
